---- MODULE Spec2Model ----
(***************************************************************************)
(* Glacier Explorer: the velocity estimate (GlacierVelocityEngine), the    *)
(* context builder and Q&A wrapper (GlacierQA) and the two button handlers *)
(* of the Streamlit page that store their results in st.session_state.     *)
(*                                                                         *)
(* Texts are sequences of string tokens: a digit, a sign or a fixed phrase *)
(* of an f-string is one token.  Numbers are integers counted in           *)
(* ten-thousandths (Scale), so that the ".4f" and ".2f" formats and the    *)
(* Kelvin offset 273.15 are exact.  A Python value whose type matters is a *)
(* pair <<tag, payload>>.                                                  *)
(***************************************************************************)
EXTENDS Integers, Sequences, FiniteSets, TLC

VARIABLES session_state, last, returned, call, ret

vars == <<session_state, last, returned, call, ret>>

(***************************************************************************)
(* Bounds of the model.                                                    *)
(***************************************************************************)
MaxImages == 2
MaxGlaciers == 1
MaxQuestionLen == 2

(***************************************************************************)
(* Python values.                                                          *)
(***************************************************************************)
Scale == 10000
None == <<"none", 0>>
Num(v) == <<"num", v>>
NaN == <<"nan", 0>>
Str(s) == <<"str", s>>
Bool(b) == <<"bool", b>>
Absent == <<"absent", 0>>

\* bool(x) of a value: None, 0, 0.0, False and "" are falsy
Truthy(x) ==
    CASE x[1] = "none" -> FALSE
      [] x[1] = "num" -> x[2] # 0
      [] x[1] = "bool" -> x[2] # 0
      [] x[1] = "str" -> x[2] # ""
      [] OTHER -> TRUE

\* isinstance(x, (int, float)): bool is a subclass of int, nan is a float
IsIntOrFloat(x) == x[1] \in {"num", "bool", "nan"}

(***************************************************************************)
(* Number formatting.                                                      *)
(***************************************************************************)
DigitChars == <<"0", "1", "2", "3", "4", "5", "6", "7", "8", "9">>

DigitChar(d) == DigitChars[d + 1]

DigitValue == [c \in {DigitChars[i] : i \in 1..10} |->
                   CHOOSE d \in 0..9 : DigitChars[d + 1] = c]

CharDigit(c) == DigitValue[c]

IsDigitChar(c) == c \in DOMAIN DigitValue

RECURSIVE Digits(_)
\* decimal digits of n >= 0, most significant first, without padding
Digits(n) == IF n < 10 THEN <<DigitChar(n)>>
             ELSE Append(Digits(n \div 10), DigitChar(n % 10))

RECURSIVE Padded(_, _)
\* decimal digits of n >= 0 zero-padded on the left to at least w digits
Padded(n, w) == IF w <= 1 THEN Digits(n)
                ELSE IF n < 10 THEN <<"0">> \o Padded(n, w - 1)
                ELSE Append(Padded(n \div 10, w - 1), DigitChar(n % 10))

Abs(n) == IF n < 0 THEN -n ELSE n

\* round a count of ten-thousandths to a count of units of size q, half to even
RoundHalfEven(v, q) ==
    LET fl == v \div q
        r == v % q
    IN IF 2 * r > q THEN fl + 1
       ELSE IF 2 * r < q THEN fl
       ELSE IF fl % 2 = 0 THEN fl ELSE fl + 1

\* f"{x:.4f}" of a number of ten-thousandths
FixedNum4(v) ==
    (IF v < 0 THEN <<"-">> ELSE <<>>)
        \o Digits(Abs(v) \div Scale) \o <<".">> \o Padded(Abs(v) % Scale, 4)

\* f"{x:.2f}" of a number of ten-thousandths
FixedNum2(v) ==
    LET h == RoundHalfEven(Abs(v), 100)
    IN (IF v < 0 THEN <<"-">> ELSE <<>>)
           \o Digits(h \div 100) \o <<".">> \o Padded(h % 100, 2)

Raised(exc) == [ok |-> FALSE, exc |-> exc, text |-> <<>>]
Text(t) == [ok |-> TRUE, exc |-> "", text |-> t]

\* format(x, ".4f") / format(x, ".2f") of any value: None and str do not
\* accept the format and raise
FormatFixed(x, places) ==
    CASE x[1] = "num" -> Text(IF places = 4 THEN FixedNum4(x[2]) ELSE FixedNum2(x[2]))
      [] x[1] = "bool" -> Text(IF places = 4 THEN FixedNum4(x[2] * Scale)
                                             ELSE FixedNum2(x[2] * Scale))
      [] x[1] = "nan" -> Text(<<"nan">>)
      [] x[1] = "none" -> Raised("TypeError")
      [] OTHER -> Raised("ValueError")

(***************************************************************************)
(* Dates: datetime.date as a record, "%Y-%m-%d" as a token sequence.       *)
(***************************************************************************)
Date(y, m, d) == [year |-> y, month |-> m, day |-> d]

IsLeap(y) == y % 4 = 0 /\ (y % 100 # 0 \/ y % 400 = 0)

DaysInMonth(y, m) ==
    IF m = 2 THEN (IF IsLeap(y) THEN 29 ELSE 28)
    ELSE IF m \in {4, 6, 9, 11} THEN 30 ELSE 31

\* days of a common year before the first of each month
DaysBeforeMonthTable == <<0, 31, 59, 90, 120, 151, 181, 212, 243, 273, 304, 334>>

DaysBeforeMonth(y, m) ==
    DaysBeforeMonthTable[m] + (IF m > 2 /\ IsLeap(y) THEN 1 ELSE 0)

DaysBeforeYear(y) ==
    LET p == y - 1 IN p * 365 + p \div 4 - p \div 100 + p \div 400

\* date.toordinal(): the day number a date difference is computed from
ToOrdinal(dt) == DaysBeforeYear(dt.year) + DaysBeforeMonth(dt.year, dt.month) + dt.day

\* date1 >= date2 on datetime.date: compares (year, month, day) in order
DateGE(a, b) ==
    \/ a.year > b.year
    \/ a.year = b.year /\ a.month > b.month
    \/ a.year = b.year /\ a.month = b.month /\ a.day >= b.day

\* date.strftime("%Y-%m-%d")
Strftime(dt) ==
    <<DigitChar(dt.year \div 1000), DigitChar((dt.year \div 100) % 10),
      DigitChar((dt.year \div 10) % 10), DigitChar(dt.year % 10), "-",
      DigitChar(dt.month \div 10), DigitChar(dt.month % 10), "-",
      DigitChar(dt.day \div 10), DigitChar(dt.day % 10)>>

Number2(s, i) == CharDigit(s[i]) * 10 + CharDigit(s[i + 1])

\* datetime.strptime(s, "%Y-%m-%d"): [ok, date]; a text that is no valid
\* date raises ValueError
Strptime(s) ==
    LET shaped == /\ Len(s) = 10
                  /\ s[5] = "-" /\ s[8] = "-"
                  /\ \A i \in {1, 2, 3, 4, 6, 7, 9, 10} : IsDigitChar(s[i])
        y == Number2(s, 1) * 100 + Number2(s, 3)
        m == Number2(s, 6)
        d == Number2(s, 9)
    IN IF shaped /\ y >= 1 /\ m \in 1..12 /\ d >= 1 /\ d <= DaysInMonth(y, m)
       THEN [ok |-> TRUE, date |-> Date(y, m, d)]
       ELSE [ok |-> FALSE, date |-> Date(1, 1, 1)]

(***************************************************************************)
(* GlacierVelocityEngine.calculate_velocity.                               *)
(*                                                                         *)
(* The geo backend of one call is a record be: n1 and n2 are the sizes of  *)
(* the image collections of the windows around date1 and date2, g the      *)
(* number of glacier polygons in the area, stats what reduceRegion         *)
(* returns, and fault the backend step that raises when the call reaches   *)
(* it ("none": no step raises).                                            *)
(***************************************************************************)
\* the backend steps of a call in the order the code reaches them; each
\* .size().getInfo() is a step of its own
StepsBeforeCounts == <<"geometry", "collection1", "collection2">>

\* the condition of the if: col2's size is fetched only if col1's is not 0
CountSteps(be) == IF be.n1 = 0 THEN <<"size1">> ELSE <<"size1", "size2">>

\* the f-string of the error message fetches both sizes again
MessageCountSteps == <<"size1_msg", "size2_msg">>

StepsToGlaciers ==
    <<"select1", "select2", "displacement", "speed", "glaciers", "glaciers_size">>

StepsToStats == <<"mask", "reduceRegion">>

Range(seq) == {seq[i] : i \in 1..Len(seq)}

\* a plausible slip: "and" for "or" in the count test
Insufficient_Both(be) == be.n1 = 0 /\ be.n2 = 0

Insufficient(be) == be.n1 = 0 \/ be.n2 = 0

\* every backend step the call makes when none raises
BackendPath(be) ==
    StepsBeforeCounts \o CountSteps(be)
        \o (IF Insufficient(be) THEN MessageCountSteps
            ELSE StepsToGlaciers \o (IF be.g = 0 THEN <<>> ELSE StepsToStats))

FaultIndex(be) ==
    LET path == BackendPath(be)
    IN IF \E i \in 1..Len(path) : path[i] = be.fault
       THEN CHOOSE i \in 1..Len(path) : path[i] = be.fault
       ELSE 0

\* the backend steps the call made, up to and including the one that raised
BackendCalls(be) ==
    LET i == FaultIndex(be)
    IN IF i = 0 THEN BackendPath(be) ELSE SubSeq(BackendPath(be), 1, i)

\* a plausible slip: the zero gap is not replaced
TimeGapFromDays_NoClamp(days) == Abs(days)

\* abs((dt2 - dt1).days), 0 replaced by 1
TimeGapFromDays(days) == IF Abs(days) = 0 THEN 1 ELSE Abs(days)

time_gap_days(dt1, dt2) == TimeGapFromDays(ToOrdinal(dt2) - ToOrdinal(dt1))

InsufficientMessage(be) ==
    <<"Insufficient cloud-free images found.", " Period 1 had ">> \o Digits(be.n1)
        \o <<" images,", " Period 2 had ">> \o Digits(be.n2)
        \o <<". Try different dates.">>

NoGlaciersMessage == <<"No GLIMS glacier polygons found in the analysis area.">>

FailedPrefix == "Velocity calculation failed: "

Failure(message) == [success |-> FALSE, error |-> message]

\* a plausible slip: the except clause returns the bare message
ExceptResult_NoPrefix(e) == Failure(<<e>>)

\* the except clause: str(e) of the exception is one token
ExceptResult(e) == Failure(<<FailedPrefix, e>>)

SuccessResult(date1, date2, gap, be) ==
    [success |-> TRUE, velocity_m_day |-> "speed_final",
     glacier_polygons |-> "glaciers", time_gap_days |-> gap,
     stats |-> be.stats, analysis_dates |-> <<date1, date2>>]

\* a plausible slip: the glacier count is not tested before the reduction
VelocityBody_NoGlacierCheck(date1, date2, dt1, dt2, be) ==
    IF be.fault \in Range(BackendPath(be)) THEN ExceptResult(be.fault)
    ELSE IF Insufficient(be) THEN Failure(InsufficientMessage(be))
    ELSE SuccessResult(date1, date2, time_gap_days(dt1, dt2), be)

\* the body of the try block once both dates are parsed
VelocityBody(date1, date2, dt1, dt2, be) ==
    IF be.fault \in Range(BackendPath(be)) THEN ExceptResult(be.fault)
    ELSE IF Insufficient(be) THEN Failure(InsufficientMessage(be))
    ELSE IF be.g = 0 THEN Failure(NoGlaciersMessage)
    ELSE SuccessResult(date1, date2, time_gap_days(dt1, dt2), be)


\* calculate_velocity(lat, lon, date1, date2, buffer_km): whether an
\* exception leaves the call, the returned dict and the backend steps made
calculate_velocity(date1, date2, be) ==
    LET p1 == Strptime(date1)
        p2 == Strptime(date2)
    IN IF be.fault = "geometry"
       THEN [raised |-> FALSE, result |-> ExceptResult(be.fault),
             calls |-> <<"geometry">>]
       ELSE IF ~p1.ok \/ ~p2.ok
       THEN [raised |-> FALSE, result |-> ExceptResult("time data does not match format"),
             calls |-> <<"geometry">>]
       ELSE [raised |-> FALSE, result |-> VelocityBody(date1, date2, p1.date, p2.date, be),
             calls |-> BackendCalls(be)]

(***************************************************************************)
(* Python dicts: a record, read with dict.get; an argument that may be     *)
(* None is PyNone or Dict(d).  The climate statistics keep their key order *)
(* (list(stats_data.keys())[0]) and are a sequence of <<key, value>>.      *)
(***************************************************************************)
PyNone == [none |-> TRUE]
Dict(d) == [none |-> FALSE, d |-> d]

Get(d, k, default) == IF k \in DOMAIN d THEN d[k] ELSE default

\* bool(x) of an optional record dict
DictTruthy(x) == ~x.none /\ DOMAIN x.d # {}

\* bool(x) of the optional ordered dict
ItemsTruthy(x) == ~x.none /\ Len(x.d) > 0

ItemsGet(items, k, default) ==
    IF \E i \in 1..Len(items) : items[i][1] = k
    THEN items[CHOOSE i \in 1..Len(items) : items[i][1] = k][2]
    ELSE default

(***************************************************************************)
(* GlacierQA.create_context.                                               *)
(***************************************************************************)
KelvinOffset == 27315 * (Scale \div 100)

\* f"{v}" of a value that is a text (token sequence) or the default 'N/A'
NotAvailable == <<"N/A">>

ContextHeader(glacier_info, climate_data, date_info) ==
    LET lat == FormatFixed(Get(glacier_info, "lat", Str("N/A")), 4)
        lon == FormatFixed(Get(glacier_info, "lon", Str("N/A")), 4)
    IN IF ~lat.ok THEN lat
       ELSE IF ~lon.ok THEN lon
       ELSE Text(<<"**GLACIER ANALYSIS CONTEXT:**", "- Glacier/Location: ",
                   Get(glacier_info, "name", "Unknown"), "- Coordinates: ">>
                 \o lat.text \o <<"N, ">> \o lon.text \o <<"E", "- Analysis Date: ">>
                 \o Get(date_info, "date", NotAvailable)
                 \o <<"- Selected Variable: ", Get(climate_data, "description", "N/A")>>)

\* the "if stats_data:" block
ContextClimate(climate_data, stats_data) ==
    IF ~ItemsTruthy(stats_data) THEN Text(<<>>)
    ELSE LET variable == Get(climate_data, "variable", "None")
             mean_temp_k == ItemsGet(stats_data.d, variable \o "_mean", None)
         IN IF Truthy(mean_temp_k) /\ variable = "Tair_f_tavg"
            THEN Text(<<"- Mean Temperature: ">> \o FixedNum2(mean_temp_k[2]) \o <<" K (">>
                      \o FixedNum2(mean_temp_k[2] - KelvinOffset) \o <<" C)">>)
            ELSE LET first == FormatFixed(stats_data.d[1][2], 4)
                 IN IF first.ok THEN Text(<<"- Mean Value: ">> \o first.text)
                    ELSE first

NotCalculated == <<"Not Calculated">>

\* a plausible slip: only None is tested for
VelocityStr_NotNone(v) == IF v # None THEN FormatFixed(v, 4) ELSE Text(NotCalculated)

\* f"{v:.4f}" if isinstance(v, (int, float)) else "Not Calculated"
VelocityStr(v) == IF IsIntOrFloat(v) THEN FormatFixed(v, 4) ELSE Text(NotCalculated)

\* the "if velocity_data:" block
ContextVelocity(velocity_data) ==
    IF ~DictTruthy(velocity_data) THEN Text(<<>>)
    ELSE LET avg_vel == Get(velocity_data.d, "avg_velocity", None)
             max_vel == Get(velocity_data.d, "max_velocity", None)
             avg_vel_str == VelocityStr(avg_vel)
             max_vel_str == VelocityStr(max_vel)
         IN IF ~avg_vel_str.ok THEN avg_vel_str
            ELSE IF ~max_vel_str.ok THEN max_vel_str
            ELSE Text(<<"**Glacier Velocity Analysis (Source: Sentinel-2):**",
                        "- Time Period: ">>
                      \o Get(velocity_data.d, "date1", NotAvailable) \o <<" to ">>
                      \o Get(velocity_data.d, "date2", NotAvailable)
                      \o <<"- Average Velocity: ">> \o avg_vel_str.text \o <<" m/day">>
                      \o <<"- Max Velocity: ">> \o max_vel_str.text \o <<" m/day">>)

ScientificBackground == <<"**Scientific Background:**">>

\* create_context(...): Text(the context) or Raised(the exception)
create_context(glacier_info, climate_data, date_info, stats_data, velocity_data) ==
    LET header == ContextHeader(glacier_info, climate_data, date_info)
        climate == ContextClimate(climate_data, stats_data)
        velocity == ContextVelocity(velocity_data)
    IN IF ~header.ok THEN header
       ELSE IF ~climate.ok THEN climate
       ELSE IF ~velocity.ok THEN velocity
       ELSE Text(header.text \o climate.text \o velocity.text \o ScientificBackground)

(***************************************************************************)
(* GlacierQA.answer_question: llm is what model.generate_content does,     *)
(* [ok |-> TRUE, text |-> the response text] or [ok |-> FALSE, exc |-> the *)
(* message of the exception it raises].                                    *)
(***************************************************************************)
ErrorPrefix == "Error generating response: "

\* a plausible slip: the exception's message is returned without the prefix
answer_question_Unprefixed(question, context, llm) ==
    IF llm.ok THEN llm.text ELSE <<llm.exc>>

\* answer_question(question, context): the text returned.  The model is
\* called once, with a prompt made of the system prompt, the context and
\* the question; what it generates or raises is llm.
answer_question(question, context, llm) ==
    IF llm.ok THEN llm.text ELSE <<ErrorPrefix, llm.exc>>

(***************************************************************************)
(* Inputs.                                                                 *)
(***************************************************************************)
Dates ==
    {Date(2023, 6, 1), Date(2023, 8, 31), Date(2023, 12, 31), Date(2024, 1, 1),
     Date(2024, 2, 28), Date(2024, 3, 1)}

\* a text of the right shape that names no day of the calendar
BadDateText == Strftime(Date(2023, 2, 30))

DateTexts == {Strftime(d) : d \in Dates} \cup {BadDateText}

\* the dates picked in the two date_input widgets (their defaults among them)
UIDates == {Date(2023, 6, 1), Date(2023, 8, 31), Date(2024, 3, 1)}

AllSteps ==
    {"geometry", "collection1", "collection2", "size1", "size2", "size1_msg",
     "size2_msg", "select1", "select2", "displacement", "speed", "glaciers",
     "glaciers_size", "mask", "reduceRegion"}

VelocityStats(mean, min, max) ==
    [velocity_mean |-> mean, velocity_min |-> min, velocity_max |-> max]

\* what reduceRegion returns: numbers, or null for a band without a valid
\* pixel under the glacier mask
StatsValues ==
    {VelocityStats(Num(5000), Num(0), Num(20000)),
     VelocityStats(Num(12345), Num(100), Num(98765)),
     VelocityStats(None, None, None)}

NoStats == VelocityStats(None, None, None)

\* the backends with these sizes: the step that raises is one the call
\* reaches, and the statistics vary only where the call reads them
BackendsOf(n1, n2, g, faults) ==
    LET be0 == [n1 |-> n1, n2 |-> n2, g |-> g, stats |-> NoStats, fault |-> "none"]
    IN {[be0 EXCEPT !.fault = f] : f \in Range(BackendPath(be0)) \cap faults}
           \cup (IF Insufficient(be0) \/ g = 0 THEN {be0}
                 ELSE {[be0 EXCEPT !.stats = st] : st \in StatsValues})

Backends ==
    UNION {BackendsOf(n[1], n[2], n[3], AllSteps) :
             n \in (0..MaxImages) \X (0..MaxImages) \X (0..MaxGlaciers)}

\* the backends behind the page: one for every outcome of a call, with a
\* raising step of each phase of it
UIBackends ==
    UNION {BackendsOf(n[1], n[2], 1, {"size2_msg"}) : n \in {<<0, 0>>, <<0, 1>>, <<1, 0>>}}
        \cup BackendsOf(1, 1, 0, {})
        \cup BackendsOf(1, 1, 1, {"geometry", "reduceRegion"})

GlacierInfo == [name |-> "Pindari Glacier", lat |-> Num(303200), lon |-> Num(799600)]

DateInfo == [date |-> Strftime(Date(2023, 8, 15))]

\* climate_map: the selectbox entry and its FLDAS band
Climates ==
    {[variable |-> "Tair_f_tavg", description |-> "Air Temperature"],
     [variable |-> "SnowDepth_inst", description |-> "Snow Depth"]}

\* the three outputs of the mean + minMax reducer for a band, each a number
\* or null; the order of the keys is the backend's
StatsItems(variable, mean, min, max, meanFirst) ==
    IF meanFirst
    THEN << <<variable \o "_mean", mean>>, <<variable \o "_min", min>>,
            <<variable \o "_max", max>> >>
    ELSE << <<variable \o "_max", max>>, <<variable \o "_mean", mean>>,
            <<variable \o "_min", min>> >>

\* stats_data: None without a climate image, else the reduceRegion dict
ClimateStats(climate) ==
    {PyNone}
        \cup {Dict(StatsItems(climate.variable, Num(2631500), Num(2600000), Num(2700025), o)) :
                o \in BOOLEAN}
        \cup {Dict(StatsItems(climate.variable, None, None, None, TRUE))}

\* the values a velocity dict may hold under avg_velocity and max_velocity;
\* Absent: the key is missing
VelocityValues == {Absent, None, Num(0), Num(12345), Str("fast"), NaN, Bool(1)}

Entry(k, v) == IF v = Absent THEN [x \in {} |-> 0] ELSE [x \in {k} |-> v]

\* velocity_data as render_complete_glacier_interface builds it, with every
\* kind of value under the two velocity keys
VelocityDicts ==
    {Dict([date1 |-> Strftime(Date(2023, 6, 1)), date2 |-> Strftime(Date(2023, 8, 31)),
           time_gap_days |-> 91]
          @@ Entry("avg_velocity", a) @@ Entry("max_velocity", m)) :
        a \in VelocityValues, m \in VelocityValues}
        \cup {Dict(Failure(NoGlaciersMessage)),
              Dict(SuccessResult(Strftime(Date(2023, 6, 1)), Strftime(Date(2023, 8, 31)), 91,
                                 [stats |-> VelocityStats(Num(5000), Num(0), Num(20000))]))}

\* what model.generate_content does
LLMs == {[ok |-> TRUE, text |-> <<"The glacier is retreating.">>, exc |-> ""],
         [ok |-> FALSE, text |-> <<>>, exc |-> "429 quota exceeded"]}

QuestionChars == {" ", "a"}

Questions == UNION {[1..n -> QuestionChars] : n \in 0..MaxQuestionLen}

IsSpace(c) == c = " "

RECURSIVE LStrip(_)
LStrip(q) == IF Len(q) > 0 /\ IsSpace(q[1]) THEN LStrip(Tail(q)) ELSE q

RECURSIVE RStrip(_)
RStrip(q) == IF Len(q) > 0 /\ IsSpace(q[Len(q)]) THEN RStrip(SubSeq(q, 1, Len(q) - 1))
             ELSE q

\* str.strip()
Strip(q) == RStrip(LStrip(q))

(***************************************************************************)
(* The page: st.session_state, and what the last button press did (last).  *)
(* returned holds the value the latest run of calculate_velocity returned. *)
(***************************************************************************)
NoCall == [fn |-> "none"]
NotReturned == [done |-> FALSE]

InitialSession == [velocity_engine |-> "GlacierVelocityEngine", qa_system |-> "GlacierQA"]

Init == /\ session_state = InitialSession
        /\ last = [op |-> "load"]
        /\ returned = <<>>
        /\ call = NoCall
        /\ ret = NotReturned

DatesError == "End date must be after start date."
QuestionWarning == "Please enter a question."

\* a plausible slip: ">" for ">="
DatesRejected_Strict(date1, date2) == DateGE(date1, date2) /\ date1 # date2

\* date1 >= date2 of the button handler
DatesRejected(date1, date2) == DateGE(date1, date2)

\* a plausible slip: the stored dict is updated with the new one
StoreResult_Update(state, result) ==
    IF "velocity_result" \in DOMAIN state
    THEN [velocity_result |-> result @@ state.velocity_result] @@ state
    ELSE [velocity_result |-> result] @@ state

\* st.session_state.velocity_result = result
StoreResult(state, result) == [velocity_result |-> result] @@ state

\* st.slider("Analysis Radius (km)", 1, 15, 5): the smallest, the largest
\* and the initial value of the slider
SliderMin == 1
SliderMax == 15
SliderDefault == 5

\* buffer_size: the slider positions tried, both ends of the slider and
\* its initial value
BufferSizes == {SliderMin, SliderDefault, SliderMax}

\* the fifth argument of the handler's call of calculate_velocity, buffer_km
VelocityBufferKm == 5

\* the "Calculate Velocity" button of render_manual_velocity_interface;
\* buffer_size is what the page's Analysis Radius slider is set to when
\* the button is pressed, buffer_km the radius handed to calculate_velocity
ClickCalculateVelocity ==
    \E date1 \in UIDates, date2 \in UIDates :
        \/ /\ DatesRejected(date1, date2)
           /\ \E buffer_size \in BufferSizes :
                last' = [op |-> "velocity", date1 |-> date1, date2 |-> date2,
                         buffer_size |-> buffer_size,
                         invoked |-> FALSE, calls |-> <<>>, shown |-> <<DatesError>>,
                         faulted |-> FALSE]
           /\ UNCHANGED <<session_state, returned>>
        \/ /\ ~DatesRejected(date1, date2)
           /\ \E be \in UIBackends :
                \E out \in {calculate_velocity(Strftime(date1), Strftime(date2), be)} :
                   /\ \E buffer_size \in BufferSizes :
                        last' = [op |-> "velocity", date1 |-> date1, date2 |-> date2,
                                 buffer_size |-> buffer_size,
                                 buffer_km |-> VelocityBufferKm,
                                 invoked |-> TRUE, calls |-> out.calls, shown |-> <<>>,
                                 faulted |-> out.raised]
                   /\ IF out.raised
                      THEN UNCHANGED <<session_state, returned>>
                      ELSE /\ session_state' = StoreResult(session_state, out.result)
                           /\ returned' = <<out.result>>
    /\ UNCHANGED <<call, ret>>

\* st.session_state.get('velocity_result')
SessionGetResult(state) ==
    IF "velocity_result" \in DOMAIN state THEN Dict(state.velocity_result) ELSE PyNone

\* the two assignments after answer_question
StoreExchange(state, question, answer) ==
    [qa_latest_question |-> question, qa_latest_answer |-> answer] @@ state

\* a plausible slip: the question is tested without strip()
QuestionAccepted_NoStrip(question) == question # <<>>

\* question.strip() of the button handler
QuestionAccepted(question) == Strip(question) # <<>>

\* what the last press of "Get Expert Answer" did
Seen(question) ==
    [op |-> "qa", question |-> question, shown |-> <<>>, generated |-> 0,
     context |-> Raised(""), llm_ok |-> TRUE, faulted |-> FALSE]

\* the "Get Expert Answer" button of render_ai_assistant_tab.  The page
\* passes it the climate selection, the climate statistics it fetched
\* (stats_data) and the stored velocity result as velocity_data.
ClickGetExpertAnswer ==
    /\ \/ \E question \in Questions :
            /\ ~QuestionAccepted(question)
            /\ last' = [Seen(question) EXCEPT !.shown = <<QuestionWarning>>]
            /\ UNCHANGED session_state
       \/ \E climate \in Climates :
            \E stats_data \in ClimateStats(climate) :
              \E context \in {create_context(GlacierInfo, climate, DateInfo, stats_data,
                                             SessionGetResult(session_state))} :
                \E question \in Questions :
                  /\ QuestionAccepted(question)
                  /\ IF ~context.ok
                     THEN /\ last' = [Seen(question) EXCEPT !.context = context,
                                                            !.faulted = TRUE]
                          /\ UNCHANGED session_state
                     ELSE \E llm \in LLMs :
                            /\ last' = [Seen(question) EXCEPT !.context = context,
                                                              !.generated = 1,
                                                              !.llm_ok = llm.ok]
                            /\ session_state' =
                                   StoreExchange(session_state, question,
                                                 answer_question(question, context.text, llm))
    /\ UNCHANGED <<returned, call, ret>>

Next == ClickCalculateVelocity \/ ClickGetExpertAnswer

Spec == Init /\ [][Next]_vars

(***************************************************************************)
(* The two functions called directly, on every input of the bounded sets.  *)
(***************************************************************************)
VelocityCalls ==
    [fn : {"calculate_velocity"}, date1 : DateTexts, date2 : DateTexts, be : Backends]

ContextCalls ==
    [fn : {"create_context"}, climate : Climates,
     stats_data : UNION {ClimateStats(c) : c \in Climates},
     velocity_data : VelocityDicts \cup {PyNone}]

InitFn == /\ session_state = InitialSession
          /\ last = [op |-> "load"]
          /\ returned = <<>>
          /\ call \in VelocityCalls \cup ContextCalls
          /\ ret = NotReturned

ApplyCalculateVelocity ==
    /\ call.fn = "calculate_velocity"
    /\ ~ret.done
    /\ ret' = [done |-> TRUE, out |-> calculate_velocity(call.date1, call.date2, call.be)]
    /\ UNCHANGED <<session_state, last, returned, call>>

ApplyCreateContext ==
    /\ call.fn = "create_context"
    /\ ~ret.done
    /\ ret' = [done |-> TRUE,
               out |-> create_context(GlacierInfo, call.climate, DateInfo,
                                      call.stats_data, call.velocity_data)]
    /\ UNCHANGED <<session_state, last, returned, call>>

NextFn == ApplyCalculateVelocity \/ ApplyCreateContext

SpecFn == InitFn /\ [][NextFn]_vars
(***************************************************************************)
(* Helpers of the properties.                                              *)
(***************************************************************************)
\* the token sequence sub occurs in text
Contains(text, sub) ==
    \E i \in 0..(Len(text) - Len(sub)) : SubSeq(text, i + 1, i + Len(sub)) = sub

FailureFields == {"success", "error"}

SuccessFields ==
    {"success", "velocity_m_day", "glacier_polygons", "time_gap_days", "stats",
     "analysis_dates"}

\* a failure with only success and error, or a success with every field
WholeResult(r) ==
    IF r.success THEN DOMAIN r = SuccessFields ELSE DOMAIN r = FailureFields

VelocityDone == ret.done /\ call.fn = "calculate_velocity"

\* the backend step was made and returned a value
StepReturned(step) == step \in Range(ret.out.calls) /\ call.be.fault # step

\* the backend step was made and raised
StepRaised(step) == step \in Range(ret.out.calls) /\ call.be.fault = step

\* C1: a press of Calculate Velocity whose start date is not before its end
\* date runs no calculate_velocity, makes no backend step for the estimate
\* and shows the validation error.
C1_RejectedBeforeBackend ==
    (last.op = "velocity" /\ ToOrdinal(last.date1) >= ToOrdinal(last.date2))
        => /\ ~last.invoked
           /\ last.calls = <<>>
           /\ last.shown = <<DatesError>>

C1_Witness ==
    /\ last.op = "velocity"
    /\ ToOrdinal(last.date1) > ToOrdinal(last.date2)
    /\ last.shown = <<DatesError>>
    /\ "velocity_result" \in DOMAIN session_state

\* a count query of the condition returned zero
YieldedZero ==
    \/ StepReturned("size1") /\ call.be.n1 = 0
    \/ StepReturned("size2") /\ call.be.n2 = 0

\* the message names the counts of both windows
NamesBothCounts(error, n1, n2) ==
    /\ Contains(error, <<" Period 1 had ">> \o Digits(n1) \o <<" images,">>)
    /\ Contains(error, <<" Period 2 had ">> \o Digits(n2))

\* C2 as claimed: whenever a window yields zero images the result is a
\* failure whose message holds the counts of both windows.
C2_Original ==
    (VelocityDone /\ YieldedZero)
        => /\ ~ret.out.result.success
           /\ DOMAIN ret.out.result = FailureFields
           /\ NamesBothCounts(ret.out.result.error, call.be.n1, call.be.n2)

\* C2 amended: whenever a window yields zero images the result is a failure
\* without speed field, polygons or stats; its message holds the counts of
\* both windows if the two count queries made again for the message
\* return, and is the "Velocity calculation failed" message of the except
\* clause if one of them raises.
C2_InsufficientImagery ==
    (VelocityDone /\ YieldedZero)
        => /\ ~ret.out.result.success
           /\ DOMAIN ret.out.result = FailureFields
           /\ IF StepRaised("size1_msg") \/ StepRaised("size2_msg")
              THEN ret.out.result.error = <<"Velocity calculation failed: ", call.be.fault>>
              ELSE NamesBothCounts(ret.out.result.error, call.be.n1, call.be.n2)

C2_Witness ==
    /\ VelocityDone
    /\ call.be.n1 >= 1 /\ call.be.n2 = 0
    /\ StepReturned("size2") /\ StepReturned("size2_msg")
    /\ NamesBothCounts(ret.out.result.error, call.be.n1, 0)

\* C3: when both count queries return at least one image and the glacier
\* query returns no polygon, the result is the no-glacier failure and no
\* mask or stats reduction is made.
C3_NoGlacierCoverage ==
    (/\ VelocityDone
     /\ StepReturned("size1") /\ call.be.n1 >= 1
     /\ StepReturned("size2") /\ call.be.n2 >= 1
     /\ StepReturned("glaciers_size") /\ call.be.g = 0)
        => /\ ret.out.result =
                  [success |-> FALSE,
                   error |-> <<"No GLIMS glacier polygons found in the analysis area.">>]
           /\ "reduceRegion" \notin Range(ret.out.calls)

C3_Witness ==
    /\ VelocityDone
    /\ call.be.n1 >= 1 /\ call.be.n2 >= 1 /\ call.be.g = 0
    /\ StepReturned("glaciers_size")
    /\ ~ret.out.result.success

\* C4: a backend step that raises gives the failure "Velocity calculation
\* failed: <message>", no exception leaves the call, and every result is a
\* failure with only success and error or a success with all its fields.
C4_FaultsBecomeFailures ==
    VelocityDone
        => /\ ~ret.out.raised
           /\ WholeResult(ret.out.result)
           /\ \A step \in AllSteps :
                StepRaised(step)
                    => ret.out.result =
                           [success |-> FALSE,
                            error |-> <<"Velocity calculation failed: ", step>>]

C4_Witness ==
    /\ VelocityDone
    /\ StepRaised("reduceRegion")
    /\ StepReturned("glaciers_size")
    /\ DOMAIN ret.out.result = FailureFields

\* C5: the slot holds exactly what the latest run of calculate_velocity
\* returned (nothing before the first run), a whole result with no field of
\* an earlier one.
C5_LatestResultOnly ==
    IF returned = <<>>
    THEN "velocity_result" \notin DOMAIN session_state
    ELSE /\ "velocity_result" \in DOMAIN session_state
         /\ session_state.velocity_result = returned[1]
         /\ WholeResult(session_state.velocity_result)

\* a rejected press after a run that failed: the failure is still stored
C5_Witness ==
    /\ last.op = "velocity" /\ ~last.invoked
    /\ returned # <<>>
    /\ ~session_state.velocity_result.success

ExchangeOf(state) ==
    [k \in DOMAIN state \cap {"qa_latest_question", "qa_latest_answer"} |-> state[k]]

Blank(question) == \A i \in 1..Len(question) : question[i] = " "

\* C6: a press of Get Expert Answer with an empty or whitespace-only
\* question makes no text-generation call, shows the warning and leaves
\* the stored question and answer as they were.
C6_BlankQuestionRejected ==
    [][(last'.op = "qa" /\ Blank(last'.question))
         => /\ last'.generated = 0
            /\ last'.shown = <<QuestionWarning>>
            /\ ExchangeOf(session_state') = ExchangeOf(session_state)]_vars

C6_Witness ==
    /\ last.op = "qa"
    /\ Len(last.question) > 0 /\ Blank(last.question)
    /\ last.shown = <<QuestionWarning>>
    /\ "qa_latest_answer" \in DOMAIN session_state

\* C7: when the text generation fails the answer stored begins with
\* "Error generating response:" and is stored with the question submitted;
\* question and answer are always stored together.
C7_GenerationFailureStored ==
    /\ ("qa_latest_question" \in DOMAIN session_state)
           <=> ("qa_latest_answer" \in DOMAIN session_state)
    /\ (last.op = "qa" /\ last.generated = 1 /\ ~last.llm_ok)
           => /\ ~last.faulted
              /\ Head(session_state.qa_latest_answer) = "Error generating response: "
              /\ session_state.qa_latest_question = last.question

C7_Witness ==
    /\ last.op = "qa" /\ last.generated = 1 /\ ~last.llm_ok
    /\ Len(last.question) > 1
    /\ Head(session_state.qa_latest_answer) = "Error generating response: "

IsNumber(x) == x[1] = "num"

\* the stored result is a success with numeric mean and max velocity
NumericSuccessStored ==
    /\ "velocity_result" \in DOMAIN session_state
    /\ session_state.velocity_result.success
    /\ IsNumber(session_state.velocity_result.stats.velocity_mean)
    /\ IsNumber(session_state.velocity_result.stats.velocity_max)

\* C8 as claimed: the context built by a press of Get Expert Answer while a
\* success with numeric mean and max velocity is stored holds that
\* result's two dates as the time period and its mean and max velocity.
C8_ContextCarriesVelocity ==
    (last.op = "qa" /\ last.context.ok /\ NumericSuccessStored)
        => LET r == session_state.velocity_result
           IN /\ Contains(last.context.text,
                          <<"- Time Period: ">> \o r.analysis_dates[1] \o <<" to ">>
                              \o r.analysis_dates[2])
              /\ Contains(last.context.text,
                          <<"- Average Velocity: ">> \o FixedNum4(r.stats.velocity_mean[2])
                              \o <<" m/day">>)
              /\ Contains(last.context.text,
                          <<"- Max Velocity: ">> \o FixedNum4(r.stats.velocity_max[2])
                              \o <<" m/day">>)

ContextDone == ret.done /\ call.fn = "create_context" /\ ~call.velocity_data.none

\* the dict holds no number under the key: the key is missing, or its value
\* is None or a text
NotANumber(d, k) == k \notin DOMAIN d \/ d[k][1] \in {"none", "str"}

\* the climate statistics are a dict whose first value is null, which the
\* climate block cannot format
NullClimateStats(stats_data) ==
    ~stats_data.none /\ Len(stats_data.d) > 0 /\ stats_data.d[1][2] = None

FirstMonth == [year |-> 2023, month |-> 6]

NextMonth(ym) ==
    IF ym.month < 12 THEN [ym EXCEPT !.month = ym.month + 1]
    ELSE [year |-> ym.year + 1, month |-> 1]

RECURSIVE DaysOfMonthsFrom(_, _)
\* the days of the whole months from month a up to, not including, month b
DaysOfMonthsFrom(a, b) ==
    IF a = b THEN 0
    ELSE DaysInMonth(a.year, a.month) + DaysOfMonthsFrom(NextMonth(a), b)

\* the days from 2023-06-01 to each date, counted month by month
DayNumber ==
    [d \in Dates |->
        DaysOfMonthsFrom(FirstMonth, [year |-> d.year, month |-> d.month]) + d.day - 1]

\* C10: the elapsed days of a success are the absolute difference in days
\* of the two dates, 1 where that is 0, so never less than 1; 91 from
\* 2023-06-01 to 2023-08-31.
C10_ElapsedDays ==
    (VelocityDone /\ ret.out.result.success)
        => LET gap == ret.out.result.time_gap_days
           IN /\ gap >= 1
              /\ \A a \in Dates, b \in Dates :
                   (call.date1 = Strftime(a) /\ call.date2 = Strftime(b))
                       => gap = (IF a = b THEN 1
                                 ELSE IF DayNumber[b] > DayNumber[a]
                                 THEN DayNumber[b] - DayNumber[a]
                                 ELSE DayNumber[a] - DayNumber[b])
              /\ (/\ call.date1 = <<"2", "0", "2", "3", "-", "0", "6", "-", "0", "1">>
                  /\ call.date2 = <<"2", "0", "2", "3", "-", "0", "8", "-", "3", "1">>)
                     => gap = 91

\* a success for the same day twice, and one with the later date first
C10_Witness ==
    /\ VelocityDone /\ ret.out.result.success
    /\ call.date1 = call.date2
    /\ ret.out.result.time_gap_days = 1

\* C11 as claimed: the radius handed to calculate_velocity by a press of
\* Calculate Velocity that passed the date check is the radius the Analysis
\* Radius slider is set to.
C11_SelectedRadiusPassed ==
    (last.op = "velocity" /\ last.invoked) => last.buffer_km = last.buffer_size

\* C12 as claimed: a press of Get Expert Answer with a question that is not
\* blank ends without a fault leaving the handler, and with the latest
\* question set to that question and a latest answer stored, whatever
\* climate statistics the page fetched.
C12_AnswerAlwaysStored ==
    (last.op = "qa" /\ ~Blank(last.question))
        => /\ ~last.faulted
           /\ DOMAIN ExchangeOf(session_state) = {"qa_latest_question", "qa_latest_answer"}
           /\ session_state.qa_latest_question = last.question

====
